---- MODULE Spec2Model ----
(***************************************************************************)
(* Model of commitron's lambda_function.py: one Lambda handler that reads  *)
(* four settings, fetches a token, clones a repository into /tmp/repo,     *)
(* increments a counter file, commits and pushes.                          *)
(*                                                                         *)
(* Text is modelled as sequences: a file's content is a sequence of        *)
(* one-character strings, a log message or error text is a sequence of     *)
(* fragments (literal pieces and interpolated values).                     *)
(***************************************************************************)
EXTENDS Integers, Sequences, FiniteSets, TLC

(* ----------------------------- bounds --------------------------------- *)
MaxLen == 2          \* longest counter-file content enumerated
MaxInvocations == 2  \* handler invocations per behaviour
MaxForeign == 1      \* commits pushed to the remote by somebody else

(* ------------------------- text of the counter ------------------------ *)
Alphabet == {"0", "1", "9", "-", " ", "a"}

RECURSIVE SeqsUpTo(_)
SeqsUpTo(n) ==
    IF n = 0 THEN {<<>>}
    ELSE LET shorter == SeqsUpTo(n - 1)
         IN  shorter \cup {Append(s, c) : s \in {t \in shorter : Len(t) = n - 1}, c \in Alphabet}

Contents == SeqsUpTo(MaxLen)

\* str.isspace() on the characters a text file can hold
IsSpace(c) == c \in {" ", "\t", "\n", "\r"}

IsDigit(c) == c \in {"0", "1", "2", "3", "4", "5", "6", "7", "8", "9"}

DigitVal(c) ==
    CASE c = "0" -> 0 [] c = "1" -> 1 [] c = "2" -> 2 [] c = "3" -> 3
      [] c = "4" -> 4 [] c = "5" -> 5 [] c = "6" -> 6 [] c = "7" -> 7
      [] c = "8" -> 8 [] c = "9" -> 9

DigitChar(d) == <<"0", "1", "2", "3", "4", "5", "6", "7", "8", "9">>[d + 1]

\* str.strip(): drop leading and trailing whitespace
RECURSIVE strip(_)
strip(s) ==
    IF s = <<>> THEN s
    ELSE IF IsSpace(Head(s)) THEN strip(Tail(s))
    ELSE IF IsSpace(s[Len(s)]) THEN strip(SubSeq(s, 1, Len(s) - 1))
    ELSE s

\* value of a run of digits and single underscores, most significant first
RECURSIVE DigitsValue(_, _)
DigitsValue(s, acc) ==
    IF s = <<>> THEN acc
    ELSE IF Head(s) = "_" THEN DigitsValue(Tail(s), acc)
    ELSE DigitsValue(Tail(s), acc * 10 + DigitVal(Head(s)))

\* the literal int() accepts after the sign: digits, single underscores
\* allowed only between two digits
IsDigitRun(s) ==
    /\ s # <<>>
    /\ \A i \in 1..Len(s) : IsDigit(s[i]) \/ s[i] = "_"
    /\ IsDigit(s[1]) /\ IsDigit(s[Len(s)])
    /\ \A i \in 1..(Len(s) - 1) : ~(s[i] = "_" /\ s[i + 1] = "_")

\* int(text): [ok |-> FALSE] stands for ValueError
int(text) ==
    LET t == strip(text)
        signed == t # <<>> /\ Head(t) \in {"+", "-"}
        body == IF signed THEN Tail(t) ELSE t
    IN  IF IsDigitRun(body)
        THEN [ok |-> TRUE,
              val |-> IF signed /\ Head(t) = "-"
                      THEN 0 - DigitsValue(body, 0) ELSE DigitsValue(body, 0)]
        ELSE [ok |-> FALSE, val |-> 0]

RECURSIVE NatStr(_)
NatStr(n) == IF n < 10 THEN <<DigitChar(n)>>
             ELSE Append(NatStr(n \div 10), DigitChar(n % 10))

\* str(n) for an int
str(n) == IF n < 0 THEN <<"-">> \o NatStr(0 - n) ELSE NatStr(n)

(* ------------------------------ files --------------------------------- *)
NoFile == [exists |-> FALSE, text |-> <<>>]
FileOf(text) == [exists |-> TRUE, text |-> text]
Files == {NoFile} \cup {FileOf(t) : t \in Contents}

(* --------------------------- configuration ---------------------------- *)
required_env_vars == <<"GITHUB_REPO", "FILE_PATH", "BRANCH", "AWS_SECRET_ID">>
Required == {required_env_vars[i] : i \in 1..Len(required_env_vars)}

\* os.environ.get(var): None when the variable is not set
None == "<None>"
ValueOf(var) ==
    CASE var = "GITHUB_REPO" -> "octo/counter"
      [] var = "FILE_PATH" -> "counter.txt"
      [] var = "BRANCH" -> "main"
      [] var = "AWS_SECRET_ID" -> "commitron/github"
Environments == {e \in [Required -> {None, "", "octo/counter", "counter.txt", "main", "commitron/github"}] :
                    \A v \in Required : e[v] \in {None, "", ValueOf(v)}}

\* `not os.environ.get(var)`
Falsy(value) == value = None \/ value = ""

\* variant: only unset variables count, an empty value passes
missing_vars_unset_only(env) == SelectSeq(required_env_vars, LAMBDA var : env[var] = None)

missing_vars(env) == SelectSeq(required_env_vars, LAMBDA var : Falsy(env[var]))

\* ', '.join(names)
RECURSIVE Join(_)
Join(names) ==
    IF names = <<>> THEN <<>>
    ELSE IF Len(names) = 1 THEN names
    ELSE <<Head(names), ", ">> \o Join(Tail(names))

MissingError(env) == <<"Missing required environment variables: ">> \o Join(missing_vars(env))

(* ------------------------- secret and repository ---------------------- *)
SecretString == "ghp_s3cr3t"
BotIdentity == [name |-> "Commitron Bot", email |-> "bot@commitron.com"]
NoIdentity == [name |-> "", email |-> ""]

RepoUrl(token, github_repo) == <<"https://", token, "@github.com/", github_repo, ".git">>
RedactedUrl(github_repo) == <<"https://", "*****", "@github.com/", github_repo, ".git">>

Mentions(text, secret) == \E i \in 1..Len(text) : text[i] = secret

\* /tmp/repo: absent, a directory that is not a usable clone, or a clone
NoDir == [kind |-> "none", file |-> NoFile, url |-> <<>>, user |-> NoIdentity,
          index |-> NoFile, commits |-> <<>>, base |-> 0]
PartialDir == [NoDir EXCEPT !.kind = "partial"]

\* Repo.clone_from(repo_url, repo_dir, branch=branch): the tip of the branch
\* checked out, the URL recorded as remote "origin" in .git/config
Clone(rem, repo_url) ==
    [kind |-> "repo", file |-> rem.file, url |-> repo_url, user |-> NoIdentity,
     index |-> rem.file, commits |-> <<>>, base |-> rem.head]

SetupOutcomes == {"ok", "rm_failed", "clone_failed", "clone_partial", "config_failed"}

\* variant: an existing clone is kept and used as it is
setup_repo_reusing(wd, rem, repo_url, outcome) ==
    CASE outcome = "rm_failed" -> wd
      [] outcome = "clone_failed" -> NoDir
      [] outcome = "clone_partial" -> PartialDir
      [] outcome = "config_failed" -> IF wd.kind = "repo" THEN wd ELSE Clone(rem, repo_url)
      [] outcome = "ok" -> IF wd.kind = "repo" THEN wd
                           ELSE [Clone(rem, repo_url) EXCEPT !.user = BotIdentity]

\* setup_repo's effect on /tmp/repo, for each way its calls can end
setup_repo(wd, rem, repo_url, outcome) ==
    CASE outcome = "rm_failed" -> wd
      [] outcome = "clone_failed" -> NoDir
      [] outcome = "clone_partial" -> PartialDir
      [] outcome = "config_failed" -> Clone(rem, repo_url)
      [] outcome = "ok" -> [Clone(rem, repo_url) EXCEPT !.user = BotIdentity]

\* the messages setup_repo logs
setup_log(wd, outcome, e) ==
    (IF wd.kind # "none" THEN <<(<<"Cleaning up existing repo directory">>)>> ELSE <<>>)
    \o (IF outcome # "rm_failed" THEN <<(<<"Cloning repository">>)>> ELSE <<>>)
    \o (IF outcome # "ok" THEN <<(<<"Failed to set up repository: ">> \o e)>> ELSE <<>>)

\* str(e) of what setup_repo raises; a GitCommandError shows the command
\* line, with the credentials of URLs masked or not depending on the
\* GitPython release
setup_error(outcome, branch, repo_url, github_repo, masked) ==
    CASE outcome = "rm_failed" ->
            <<"Command '['rm', '-rf', '/tmp/repo']' returned non-zero exit status 1.">>
      [] outcome \in {"clone_failed", "clone_partial"} ->
            <<"Cmd('git') failed due to: exit code(128) cmdline: git clone -v --branch=", branch, " -- ">>
            \o (IF masked THEN RedactedUrl(github_repo) ELSE repo_url) \o <<" /tmp/repo">>
      [] outcome = "config_failed" -> <<"[Errno 28] No space left on device">>
      [] outcome = "ok" -> <<>>

(* ---------------------------- counter store --------------------------- *)
\* variant: the counter starts from 0 instead of 1
update_counter_from_zero(file) ==
    LET content == strip(file.text)
        parsed == int(content)
        counter == IF file.exists /\ parsed.ok THEN parsed.val + 1 ELSE 0
    IN  [counter |-> counter, file |-> FileOf(str(counter)),
         warned |-> file.exists /\ ~parsed.ok, content |-> content]

\* update_counter without its I/O failures: the value returned, the file
\* written and the warning logged
update_counter(file) ==
    LET content == strip(file.text)
        parsed == int(content)
        counter == IF file.exists /\ parsed.ok THEN parsed.val + 1 ELSE 1
    IN  [counter |-> counter, file |-> FileOf(str(counter)),
         warned |-> file.exists /\ ~parsed.ok, content |-> content]

(* ------------------------------ envelopes ----------------------------- *)
NoResult == [statusCode |-> 0, message |-> <<>>, repository |-> "", branch |-> "", error |-> <<>>]
Success(counter, github_repo, branch) ==
    [statusCode |-> 200, message |-> <<"Counter updated to ">> \o str(counter),
     repository |-> github_repo, branch |-> branch, error |-> <<>>]
Failure(e) ==
    [statusCode |-> 500, message |-> <<>>, repository |-> "", branch |-> "", error |-> e]

commit_message(counter) == <<"Automated commit: Increment counter to ">> \o str(counter)

(* ------------------------------- state -------------------------------- *)
VARIABLES
    environ,        \* os.environ restricted to the four settings
    pc,             \* where lambda_handler is: "idle" between invocations
    token,          \* lambda_handler's local token ("" before it is fetched)
    counter,        \* lambda_handler's local counter
    workdir,        \* /tmp/repo
    remote,         \* the branch on origin: its counter file and commit count
    log,            \* messages logged by the current invocation
    result,         \* the envelope returned by the last invocation
    calls,          \* the steps the current invocation has run, with outcomes
    invocations,    \* invocations started so far
    foreign,        \* commits pushed to the branch by other writers so far
    remoteAtClone   \* the remote counter file when setup_repo last ran

vars == <<environ, pc, token, counter, workdir, remote, log, result, calls,
          invocations, foreign, remoteAtClone>>

StepOrder == <<"secret", "clone", "counter", "stage", "commit", "push">>

\* variant: the commit is created before the file is staged
next_step_commit_first(step) ==
    CASE step = "secret" -> "clone"
      [] step = "clone" -> "counter"
      [] step = "counter" -> "commit"
      [] step = "commit" -> "stage"
      [] step = "stage" -> "push"

\* the statement lambda_handler runs after `step` returned normally
next_step(step) ==
    LET i == CHOOSE k \in 1..Len(StepOrder) : StepOrder[k] = step
    IN  StepOrder[i + 1]

Init ==
    /\ environ \in Environments
    /\ pc = "idle"
    /\ token = ""
    /\ counter = 0
    /\ workdir = NoDir
    /\ remote \in {[file |-> f, head |-> 1] : f \in Files}
    /\ log = <<>>
    /\ result = NoResult
    /\ calls = <<>>
    /\ invocations = 0
    /\ foreign = 0
    /\ remoteAtClone = NoFile

Called(step, outcome) == Append(calls, [step |-> step, outcome |-> outcome])

\* lambda_handler's `except Exception as e` block, after `logged` was logged
Caught(logged, e) ==
    /\ log' = Append(logged, <<"Lambda execution failed: ">> \o e)
    /\ result' = Failure(e)
    /\ pc' = "idle"

\* entry of lambda_handler up to the end of input validation
Invoke ==
    /\ pc = "idle"
    /\ invocations < MaxInvocations
    /\ invocations' = invocations + 1
    /\ calls' = <<>>
    /\ token' = ""
    /\ counter' = 0
    /\ IF missing_vars(environ) # <<>>
       THEN Caught(<<>>, MissingError(environ))
       ELSE /\ pc' = StepOrder[1]
            /\ log' = <<>>
            /\ result' = NoResult
    /\ UNCHANGED <<environ, workdir, remote, foreign, remoteAtClone>>

ClientErrorText ==
    <<"An error occurred (AccessDeniedException) when calling the GetSecretValue operation">>
KeyErrorText == <<"'SecretString'">>

\* variant: a failed lookup is logged and an empty token returned
get_github_token_fallback(outcome) ==
    CASE outcome = "ok" ->
            [raised |-> FALSE, value |-> SecretString, e |-> <<>>, logged |-> <<>>]
      [] outcome = "client_error" ->
            [raised |-> FALSE, value |-> "", e |-> <<>>,
             logged |-> <<(<<"Failed to retrieve secret: ">> \o ClientErrorText)>>]
      [] outcome = "other_error" ->
            [raised |-> TRUE, value |-> "", e |-> KeyErrorText, logged |-> <<>>]

\* get_github_token: the secret, or the exception raised and what was logged
get_github_token(outcome) ==
    CASE outcome = "ok" ->
            [raised |-> FALSE, value |-> SecretString, e |-> <<>>, logged |-> <<>>]
      [] outcome = "client_error" ->
            [raised |-> TRUE, value |-> "", e |-> ClientErrorText,
             logged |-> <<(<<"Failed to retrieve secret: ">> \o ClientErrorText)>>]
      [] outcome = "other_error" ->
            [raised |-> TRUE, value |-> "", e |-> KeyErrorText, logged |-> <<>>]

\* token = get_github_token()
GetToken ==
    /\ pc = "secret"
    /\ \E outcome \in {"ok", "client_error", "other_error"} :
         LET got == get_github_token(outcome)
         IN  /\ calls' = Called("secret", outcome)
             /\ IF got.raised
                THEN /\ Caught(log \o got.logged, got.e)
                     /\ UNCHANGED token
                ELSE /\ token' = got.value
                     /\ log' = log \o got.logged
                     /\ pc' = next_step("secret")
                     /\ UNCHANGED result
    /\ UNCHANGED <<environ, counter, workdir, remote, invocations, foreign, remoteAtClone>>

\* repo_url = ...; repo = setup_repo(token, repo_url, branch)
SetupRepo ==
    /\ pc = "clone"
    /\ \E outcome \in SetupOutcomes, masked \in BOOLEAN :
         LET github_repo == environ["GITHUB_REPO"]
             branch == environ["BRANCH"]
             repo_url == RepoUrl(token, github_repo)
             e == setup_error(outcome, branch, repo_url, github_repo, masked)
             logged == log \o setup_log(workdir, outcome, e)
         IN  /\ outcome = "rm_failed" => workdir.kind # "none"
             /\ workdir' = setup_repo(workdir, remote, repo_url, outcome)
             /\ calls' = Called("clone", outcome)
             /\ IF outcome = "ok"
                THEN /\ pc' = next_step("clone")
                     /\ log' = logged
                     /\ UNCHANGED result
                ELSE Caught(logged, e)
    /\ remoteAtClone' = remote.file
    /\ UNCHANGED <<environ, token, counter, remote, invocations, foreign>>

IOErrorText == <<"[Errno 13] Permission denied: '/tmp/repo/counter.txt'">>

\* counter = update_counter(counter_file_path)
UpdateCounter ==
    /\ pc = "counter"
    /\ \E outcome \in {"ok", "io_error"} :
         LET updated == update_counter(workdir.file)
         IN  /\ calls' = Called("counter", outcome)
             /\ IF outcome = "ok"
                THEN /\ counter' = updated.counter
                     /\ workdir' = [workdir EXCEPT !.file = updated.file]
                     /\ log' = IF updated.warned
                               THEN Append(log, <<"Invalid counter value in file: ">>
                                                \o updated.content \o <<", resetting to 1">>)
                               ELSE log
                     /\ pc' = next_step("counter")
                     /\ UNCHANGED result
                ELSE /\ Caught(Append(log, <<"Failed to update counter: ">> \o IOErrorText),
                               IOErrorText)
                     /\ UNCHANGED <<counter, workdir>>
    /\ UNCHANGED <<environ, token, remote, invocations, foreign, remoteAtClone>>

GitErrorText(command) ==
    <<"Cmd('git') failed due to: exit code(128) cmdline: git ", command>>

\* repo.git.add(counter_file_path)
Stage ==
    /\ pc = "stage"
    /\ \E outcome \in {"ok", "git_error"} :
         /\ calls' = Called("stage", outcome)
         /\ IF outcome = "ok"
            THEN /\ workdir' = [workdir EXCEPT !.index = workdir.file]
                 /\ pc' = next_step("stage")
                 /\ UNCHANGED <<log, result>>
            ELSE /\ Caught(log, GitErrorText("add /tmp/repo/counter.txt"))
                 /\ UNCHANGED workdir
    /\ UNCHANGED <<environ, token, counter, remote, invocations, foreign, remoteAtClone>>

\* repo.index.commit(commit_message)
Commit ==
    /\ pc = "commit"
    /\ \E outcome \in {"ok", "git_error"} :
         /\ calls' = Called("commit", outcome)
         /\ IF outcome = "ok"
            THEN /\ workdir' = [workdir EXCEPT !.commits =
                        Append(@, [message |-> commit_message(counter),
                                   author |-> workdir.user, file |-> workdir.index])]
                 /\ log' = Append(log, <<"Created commit">>)
                 /\ pc' = next_step("commit")
                 /\ UNCHANGED result
            ELSE /\ Caught(log, <<"[Errno 28] No space left on device">>)
                 /\ UNCHANGED workdir
    /\ UNCHANGED <<environ, token, counter, remote, invocations, foreign, remoteAtClone>>

\* What `git push` to origin can do.  "ok": the branch is fast-forwarded.
\* "rejected": the branch has moved since the clone (non-fast-forward).
\* "declined": the server refuses the update (protected branch, hook).
\* "raised": the command fails before any ref is reported (network, auth).
PushOutcomes(wd, rem) ==
    IF rem.head = wd.base THEN {"ok", "declined", "raised"} ELSE {"rejected", "raised"}

\* Remote.push() raises only when git reports no ref at all; a rejected or
\* declined ref comes back as a PushInfo carrying the ERROR flag
PushRaises(outcome) == outcome = "raised"

\* repo.remote(name="origin").push() and the success return
Push ==
    /\ pc = "push"
    /\ \E outcome \in PushOutcomes(workdir, remote) :
         /\ calls' = Called("push", outcome)
         /\ IF outcome = "ok"
            THEN /\ remote' = [file |-> workdir.commits[Len(workdir.commits)].file,
                               head |-> remote.head + 1]
                 /\ workdir' = [workdir EXCEPT !.commits = <<>>, !.base = remote.head + 1]
            ELSE UNCHANGED <<remote, workdir>>
         /\ IF PushRaises(outcome)
            THEN Caught(log, GitErrorText("push --porcelain origin"))
            ELSE /\ log' = Append(log, <<"Successfully pushed changes to remote repository">>)
                 /\ result' = Success(counter, environ["GITHUB_REPO"], environ["BRANCH"])
                 /\ pc' = "idle"
    /\ UNCHANGED <<environ, token, counter, invocations, foreign, remoteAtClone>>

\* what another writer leaves in the counter file: nothing, a number, junk
ForeignFiles == {NoFile, FileOf(<<"9">>), FileOf(<<"a">>)}

\* somebody else pushes a commit to the branch
OtherWriter ==
    /\ foreign < MaxForeign
    /\ foreign' = foreign + 1
    /\ \E f \in ForeignFiles : remote' = [file |-> f, head |-> remote.head + 1]
    /\ UNCHANGED <<environ, pc, token, counter, workdir, log, result, calls,
                   invocations, remoteAtClone>>

\* between two invocations a setting is removed or emptied; lambda_handler
\* reads os.environ afresh each time
Misconfigure ==
    /\ pc = "idle"
    /\ \A var \in Required : ~Falsy(environ[var])
    /\ \E var \in Required, value \in {None, ""} :
         environ' = [environ EXCEPT ![var] = value]
    /\ UNCHANGED <<pc, token, counter, workdir, remote, log, result, calls,
                   invocations, foreign, remoteAtClone>>

Next ==
    \/ Invoke
    \/ GetToken
    \/ SetupRepo
    \/ UpdateCounter
    \/ Stage
    \/ Commit
    \/ Push
    \/ OtherWriter
    \/ Misconfigure

Spec == Init /\ [][Next]_vars

TypeOK ==
    /\ pc \in {"idle"} \cup {StepOrder[i] : i \in 1..Len(StepOrder)}
    /\ result.statusCode \in {0, 200, 500}
    /\ workdir.kind \in {"none", "partial", "repo"}

(* ---------------------------- properties ------------------------------ *)
LastCall == calls[Len(calls)]
\* the non-negative integers the enumerated contents can denote, plus one
Numbers == 0..(10 ^ MaxLen)
AllOk(n) == \A i \in 1..n : calls[i].outcome = "ok"
Returned == pc = "idle" /\ invocations > 0
Logged(secret) == \E i \in 1..Len(log) : Mentions(log[i], secret)

\* C1: an invocation that finds one of the four required settings unset or
\* empty returns the 500 envelope whose error names exactly those settings,
\* runs no step, and leaves /tmp/repo and the remote as they were.
C1_MissingSettingsAbortBeforeAnyStep ==
    [][(pc = "idle" /\ invocations' = invocations + 1
            /\ \E var \in Required : environ[var] \in {None, ""})
       => LET e == result'.error
              named == {e[i] : i \in 2..Len(e)} \ {", "}
          IN  /\ pc' = "idle"
              /\ result'.statusCode = 500
              /\ e[1] = "Missing required environment variables: "
              /\ named = {var \in Required : environ[var] \in {None, ""}}
              /\ calls' = <<>>
              /\ token' = ""
              /\ workdir' = workdir
              /\ remote' = remote]_vars

\* a second invocation, run after BRANCH was emptied, has returned while
\* the clone of the first one is on disk
C1_Witness ==
    /\ Returned /\ invocations = 2 /\ calls = <<>>
    /\ environ["BRANCH"] = ""
    /\ \A var \in Required \ {"BRANCH"} : environ[var] \notin {None, ""}
    /\ result.statusCode = 500
    /\ workdir.kind = "repo"

\* C2: the steps of an invocation run in the order secret, clone, counter,
\* stage, commit, push; each at most once, each only after all earlier ones
\* succeeded, and none after a step failed.
C2_StepsInStrictOrder ==
    /\ Len(calls) <= Len(StepOrder)
    /\ \A i \in 1..Len(calls) : calls[i].step = StepOrder[i]
    /\ AllOk(Len(calls) - 1)
    /\ pc # "idle" => /\ AllOk(Len(calls))
                      /\ Len(calls) < Len(StepOrder)
                      /\ pc = StepOrder[Len(calls) + 1]
    /\ (calls # <<>> /\ LastCall.outcome # "ok") => pc = "idle"

\* all six steps have run in one invocation
C2_Witness ==
    /\ Returned
    /\ Len(calls) = 6 /\ LastCall = [step |-> "push", outcome |-> "ok"]
    /\ result.statusCode = 200

\* an invocation stopped at a failed commit
C2_WitnessFailure ==
    /\ Returned
    /\ Len(calls) = 5 /\ LastCall = [step |-> "commit", outcome |-> "git_error"]

\* C3: every invocation returns status 200 exactly when validation and all
\* six steps succeeded (the body carrying the new counter, the repository
\* and the branch), and status 500 with the error text otherwise.
C3_TwoEnvelopes ==
    Returned =>
        /\ result.statusCode \in {200, 500}
        /\ result.statusCode = 200 <=> (Len(calls) = Len(StepOrder) /\ AllOk(Len(calls)))
        /\ result.statusCode = 200 =>
               result = [statusCode |-> 200,
                         message |-> <<"Counter updated to ">> \o str(counter),
                         repository |-> environ["GITHUB_REPO"],
                         branch |-> environ["BRANCH"], error |-> <<>>]
        /\ result.statusCode = 500 => result.error # <<>>

\* C4: update_counter returns 1 for a missing file, N+1 for a file whose
\* stripped content is the decimal text of a non-negative N, 1 for content
\* int() rejects (the empty content included); afterwards the file holds
\* exactly the decimal text of the returned value.
C4_UpdateCounterCases ==
    [][(pc = "counter" /\ Len(calls') = 3 /\ LastCall'.outcome = "ok")
       => LET file == workdir.file
              missing == ~file.exists
              unparsable == file.exists /\ ~int(file.text).ok
          IN  /\ missing => counter' = 1
              /\ \A N \in Numbers :
                    (file.exists /\ strip(file.text) = str(N)) => counter' = N + 1
              /\ unparsable => counter' = 1
              /\ (missing \/ unparsable \/ \E N \in Numbers : file.exists /\ strip(file.text) = str(N))
                    => /\ workdir'.file.exists
                       /\ workdir'.file.text = str(counter')]_vars

\* the counter went from " 9" to "10"
C4_Witness ==
    /\ pc = "stage"
    /\ remoteAtClone = [exists |-> TRUE, text |-> <<" ", "9">>]
    /\ counter = 10
    /\ workdir.file = [exists |-> TRUE, text |-> <<"1", "0">>]

\* C5: when the push is rejected as a non-fast-forward the invocation
\* returns status 500 with an error text, never 200, and the local commit
\* and the incremented counter file stay in /tmp/repo.
C5_RejectedPushReportsFailure ==
    (Returned /\ calls # <<>> /\ LastCall = [step |-> "push", outcome |-> "rejected"])
    => /\ result.statusCode = 500
       /\ result.error # <<>>
       /\ workdir.commits # <<>>
       /\ workdir.file = FileOf(str(counter))

\* C6: when get_github_token raises, the invocation returns status 500 with
\* the error text, setup_repo is not called, and /tmp/repo and the remote
\* are as they were when the invocation started.
C6_SecretFailureLeavesEverythingAlone ==
    [][/\ (pc \in {"idle", "secret"} /\ foreign' = foreign)
            => (workdir' = workdir /\ remote' = remote)
       /\ (pc = "secret" /\ Len(calls') = 1 /\ LastCall'.outcome # "ok")
            => /\ pc' = "idle"
               /\ result'.statusCode = 500
               /\ result'.error \in {ClientErrorText, KeyErrorText}]_vars

\* the secret lookup of a second invocation failed with a clone on disk
C6_Witness ==
    /\ Returned /\ invocations = 2
    /\ calls = <<[step |-> "secret", outcome |-> "client_error"]>>
    /\ workdir.kind = "repo" /\ workdir.commits # <<>>
    /\ result.statusCode = 500

\* C7: whatever the counter file held, the value update_counter writes and
\* returns, and that the commit and success messages carry, is >= 0.
C7_CounterNeverNegative ==
    /\ counter >= 0
    /\ (calls # <<>> /\ Len(calls) >= 3 /\ calls[3].outcome = "ok")
          => \E N \in Numbers : workdir.file.text = str(N)
    /\ \A i \in 1..Len(workdir.commits) :
          \E N \in Numbers : workdir.commits[i].message =
                              <<"Automated commit: Increment counter to ">> \o str(N)

\* C8: the token, and the URL embedding it, never reach a log message or a
\* file on disk.
C8_TokenOnlyInMemory ==
    /\ ~Logged(SecretString)
    /\ workdir.kind # "none" => ~Mentions(workdir.url, SecretString)

\* C9: update_counter always reads the counter file of the branch as cloned
\* by this invocation: nothing an earlier invocation left in /tmp/repo (an
\* incremented file, a staged change, an unpushed commit) survives
\* setup_repo or changes the counter computed.
C9_WorkdirNeverReused ==
    /\ pc = "counter" =>
          /\ workdir.kind = "repo"
          /\ workdir.file = remoteAtClone
          /\ workdir.index = remoteAtClone
          /\ workdir.commits = <<>>
    /\ pc \in {"stage", "commit", "push"} =>
          /\ counter = update_counter(remoteAtClone).counter
          /\ workdir.file = update_counter(remoteAtClone).file
          /\ Len(workdir.commits) = IF pc = "push" THEN 1 ELSE 0

\* a second invocation found a directory from the first, removed it, and
\* computed its counter from the fresh clone
C9_Witness ==
    /\ invocations = 2 /\ pc = "stage"
    /\ log # <<>> /\ log[1] = <<"Cleaning up existing repo directory">>
    /\ remoteAtClone = [exists |-> TRUE, text |-> <<"9">>]
    /\ counter = 10

\* C10: with no other writer and a remote counter file holding an integer,
\* an invocation that returns 200 has added exactly one commit that raises
\* the remote counter by 1 to the value its message reports, and any other
\* step of the handler leaves the remote unchanged.
C10_RemoteCounterFollowsSuccesses ==
    [][(foreign' = 0 /\ remote.file.exists /\ int(remote.file.text).ok)
       => IF pc # "idle" /\ pc' = "idle" /\ result'.statusCode = 200
          THEN /\ remote'.head = remote.head + 1
               /\ remote'.file.exists
               /\ int(remote'.file.text).ok
               /\ int(remote'.file.text).val = int(remote.file.text).val + 1
               /\ result'.message = <<"Counter updated to ">> \o remote'.file.text
          ELSE remote' = remote]_vars

====
